---- MODULE Spec2Model ----
(***************************************************************************)
(* State-machine model of the capture-and-submit flow of fixify_fe:        *)
(*   - ApiService (src/src/services/api.ts): uploadVideoForAnalysis and    *)
(*     testConnection, with the platform's fetch, abort timer and clock as *)
(*     the environment;                                                    *)
(*   - Dashboard.handleVideoSubmit (src/src/pages/Dashboard.tsx);          *)
(*   - VideoRecorder (src/src/components/VideoRecorder.tsx).               *)
(* JavaScript runs one task at a time: an action is one task together with *)
(* the microtasks (promise continuations) it triggers.                     *)
(***************************************************************************)
EXTENDS Integers, Sequences, FiniteSets

VARIABLES
    now,          \* what Date.now() returns (ms)
    calls,        \* the uploadVideoForAnalysis calls made so far
    probes,       \* the testConnection calls made so far
    isBackendConnected,  \* Dashboard state: "null", "true" or "false"
    lastToast,    \* title of the toast shown last ("" when none was)
    \* Dashboard (Dashboard.tsx:27-28)
    reports,      \* the Report list, newest first
    isLoading,
    cbCalls,      \* the calls of the onVideoSubmit callback made so far
    \* VideoRecorder state (VideoRecorder.tsx:22-27)
    isRecording,
    recordedVideoUrl,   \* 0: null, else the object URL handed out
    recordedBlob,       \* NULL or Some(blob)
    description,        \* a sequence of characters
    isSubmitting,
    hasPermission,      \* "null", "true" or "false"
    \* VideoRecorder refs (VideoRecorder.tsx:29-32)
    videoSrcObject,     \* videoRef.current.srcObject: 0 or a stream
    mediaRecorderRef,   \* 0: null, else an index of recorders
    chunksRef,
    streamRef,          \* 0: null, else a stream
    \* The platform's side of the recorder
    recorders,    \* the MediaRecorders created: [stream, state]
    liveStreams,  \* the streams whose tracks have not been stopped
    acquisitions, \* getUserMedia calls: [made, pending, byReset, granted]
    urlCount,     \* object URLs handed out by URL.createObjectURL
    noStreamStarts, \* startRecording invocations that returned at line 79
    uncaught,     \* exceptions that escaped an event handler
    submits       \* the handleSubmit invocations that passed validation

probeVars == <<probes, isBackendConnected>>
dashVars == <<reports, isLoading, cbCalls>>
formVars == <<recordedVideoUrl, recordedBlob, description, isSubmitting, submits>>
camVars == <<isRecording, hasPermission, videoSrcObject, mediaRecorderRef,
             chunksRef, streamRef, recorders, liveStreams, acquisitions, urlCount,
             noStreamStarts, uncaught>>
recVars == <<formVars, camVars>>

vars == <<now, calls, probeVars, lastToast, dashVars, recVars>>

-----------------------------------------------------------------------------
\* Bounds of the model

MaxCalls == 2        \* uploadVideoForAnalysis calls in one behaviour
MaxTicks == 2        \* clock advances in one behaviour
MaxProbes == 2       \* testConnection calls in one behaviour
MaxDescLen == 2      \* characters the user types into the description
MaxAcquisitions == 3 \* getUserMedia calls in one behaviour
MaxRecorders == 2    \* MediaRecorders created in one behaviour
MaxChunkSize == 1    \* bytes of the data a recorder delivers
MaxNoStreamStarts == 1 \* clicks on "Start Recording" while no stream is held
TickMs == 60000      \* how far one clock advance moves Date.now()

\* The last value of the clock
MaxNow == MaxTicks * TickMs

\* Program constants
TimeoutMs == 120000  \* api.ts:47

-----------------------------------------------------------------------------
\* Values

NULL == <<>>                 \* null / undefined / an absent field
Some(x) == <<x>>             \* a present value

\* A Blob: the parts it was built from (each part stands for its size in
\* bytes) and its declared type.
MkBlob(parts, type) == [parts |-> parts, type |-> type]

RECURSIVE SumSeq(_)
SumSeq(s) == IF s = <<>> THEN 0 ELSE Head(s) + SumSeq(Tail(s))

BlobSize(b) == SumSeq(b.parts)

\* Error messages: a text, and the HTTP status the template literal of
\* api.ts:71 appends (0 when the message has none).
Msg(text) == [text |-> text, status |-> 0]
HttpErrorMsg(status) == [text |-> "HTTP error! status: ", status |-> status]
InvalidBlobMsg == Msg("Invalid video blob: empty or missing")
TimeoutMsg == Msg("Request timeout - video analysis is taking longer than expected")
NetworkErrorMsg == Msg("Network error occurred")

\* A thrown value: isError is `instanceof Error`.
Thrown(isError, name, message) ==
    [isError |-> isError, name |-> name, message |-> message]

\* A parsed JSON value. For an object, the fields the code reads; NULL marks
\* a field the object does not have. EmptyObject is {}; JsonNull is the
\* JSON text `null`, which has no properties to read.
Json(success, message, data) ==
    [isNull |-> FALSE, success |-> success, message |-> message, data |-> data]
EmptyObject == Json(NULL, NULL, NULL)
JsonNull == [isNull |-> TRUE, success |-> NULL, message |-> NULL, data |-> NULL]

\* The TypeError of reading the property `message` of null.
NullReadError ==
    Thrown(TRUE, "TypeError", Msg("Cannot read properties of null (reading 'message')"))

\* How a call ended.
Pending == [kind |-> "pending", name |-> "", message |-> Msg(""), value |-> EmptyObject]
Threw(name, message) ==
    [kind |-> "threw", name |-> name, message |-> message, value |-> EmptyObject]
Returned(v) == [kind |-> "returned", name |-> "", message |-> Msg(""), value |-> v]

\* JavaScript truthiness of an optional string field (`errorData.message ||`).
TruthyString(opt) == opt /= NULL /\ opt[1] /= ""

\* response.ok
ResponseOk(status) == status >= 200 /\ status <= 299

-----------------------------------------------------------------------------
\* ApiService.uploadVideoForAnalysis (api.ts:32-88)

\* api.ts:41: new File([videoBlob], 'video.mp4', { type: 'video/mp4' })
VideoFile(blob) == [name |-> "video.mp4", type |-> "video/mp4", parts |-> blob.parts]

\* api.ts:36: !videoBlob || videoBlob.size === 0
InvalidBlob(blobOpt) == blobOpt = NULL \/ BlobSize(blobOpt[1]) = 0

\* The same without the size test of api.ts:36.
UploadStartNullOnly(blobOpt, desc, caller, t) ==
    IF blobOpt = NULL
    THEN [caller |-> caller, blob |-> blobOpt, description |-> desc,
          startedAt |-> t, pc |-> "done", timer |-> "none", request |-> NULL,
          status |-> 0, body |-> NULL, caught |-> NULL,
          outcome |-> [kind |-> "threw", name |-> "Error",
                       message |-> InvalidBlobMsg, value |-> EmptyObject]]
    ELSE [caller |-> caller, blob |-> blobOpt, description |-> desc,
          startedAt |-> t, pc |-> "fetch", timer |-> "armed",
          request |-> Some([video |-> VideoFile(blobOpt[1]), description |-> desc]),
          status |-> 0, body |-> NULL, caught |-> NULL,
          outcome |-> Pending]

\* api.ts:32-61: the synchronous part of the call, up to the await of fetch.
\* request is the fetch that was issued (NULL: none); timer is the abort
\* timer of this call's own AbortController; body is what the read of the
\* response's body settled with (NULL: not read).
UploadStart(blobOpt, desc, caller, t) ==
    IF InvalidBlob(blobOpt)
    THEN [caller |-> caller, blob |-> blobOpt, description |-> desc,
          startedAt |-> t, pc |-> "done", timer |-> "none", request |-> NULL,
          status |-> 0, body |-> NULL, caught |-> NULL,
          outcome |-> Threw("Error", InvalidBlobMsg)]
    ELSE [caller |-> caller, blob |-> blobOpt, description |-> desc,
          startedAt |-> t, pc |-> "fetch", timer |-> "armed",
          request |-> Some([video |-> VideoFile(blobOpt[1]), description |-> desc]),
          status |-> 0, body |-> NULL, caught |-> NULL,
          outcome |-> Pending]

\* The catch block if it wrapped every failure but the abort in the
\* 'Network error occurred' Error.
UploadCatchWrapsAll(c, e) ==
    [c EXCEPT !.pc = "done",
              !.caught = Some(e),
              !.timer = IF c.timer = "armed" THEN "cleared" ELSE c.timer,
              !.outcome = IF e.isError /\ e.name = "AbortError"
                          THEN Threw("Error", TimeoutMsg)
                          ELSE Threw("Error", NetworkErrorMsg)]

\* api.ts:77-87: the catch block. caught is the value it logs (api.ts:79).
UploadCatch(c, e) ==
    [c EXCEPT !.pc = "done",
              !.caught = Some(e),
              !.timer = IF c.timer = "armed" THEN "cleared" ELSE c.timer,
              !.outcome = IF e.isError
                          THEN IF e.name = "AbortError"
                               THEN Threw("Error", TimeoutMsg)
                               ELSE Threw(e.name, e.message)
                          ELSE Threw("Error", NetworkErrorMsg)]

\* api.ts:57-72: fetch resolved with the response's status line and headers.
UploadOnResponse(c, status) ==
    [c EXCEPT !.timer = "cleared",
              !.status = status,
              !.pc = IF ResponseOk(status) THEN "okBody" ELSE "errorBody"]

\* api.ts:69-76: response.json() settled. body.parsed says whether it
\* resolved (with body.value) or rejected (with body.error). On a response
\* that is not ok, a rejection is replaced by {} (api.ts:69) and the read of
\* errorData.message (api.ts:70) throws inside the try block when the body
\* is the JSON value null.
UploadOnBody(c0, body) ==
    LET c == [c0 EXCEPT !.body = Some(body)] IN
    IF c.pc = "errorBody"
    THEN LET errorData == IF body.parsed THEN body.value ELSE EmptyObject
             message == IF TruthyString(errorData.message)
                        THEN Msg(errorData.message[1])
                        ELSE HttpErrorMsg(c.status)
         IN IF errorData.isNull
            THEN UploadCatch(c, NullReadError)
            ELSE UploadCatch(c, Thrown(TRUE, "Error", message))
    ELSE IF body.parsed
         THEN [c EXCEPT !.pc = "done", !.outcome = Returned(body.value)]
         ELSE UploadCatch(c, body.error)

\* api.ts:47: the timer's callback, controller.abort(): the pending fetch
\* rejects with the AbortError DOMException, which is an Error instance.
AbortError == Thrown(TRUE, "AbortError", Msg("The user aborted a request."))
UploadOnAbort(c) == UploadCatch([c EXCEPT !.timer = "fired"], AbortError)

\* A timer that is due as soon as it is set.
TimerDueAtOnce(c, t) == c.timer = "armed" /\ t >= c.startedAt

\* setTimeout never runs its callback before the delay has passed.
TimerDue(c, t) == c.timer = "armed" /\ t >= c.startedAt + TimeoutMs

-----------------------------------------------------------------------------
\* ApiService.testConnection (api.ts:90-115)

\* api.ts:94-99: the fetch is issued; result is what the call settles with:
\* "pending", "true", "false", or "threw" if it rejected.
TestConnectionStart(caller) ==
    [caller |-> caller, pc |-> "fetch", status |-> 0, result |-> "pending",
     request |-> [method |-> "GET", path |-> "/videos/test-gemini"]]

\* api.ts:103-110
TestConnectionOnResponse(p, status) ==
    IF ResponseOk(status)
    THEN [p EXCEPT !.status = status, !.pc = "body"]
    ELSE [p EXCEPT !.status = status, !.pc = "done", !.result = "false"]

\* api.ts:104-106 and, when response.json() rejects, 111-114
TestConnectionOnBody(p, body) ==
    [p EXCEPT !.pc = "done",
              !.result = IF body.parsed THEN "true" ELSE "false"]

\* api.ts:111-114: fetch rejected
TestConnectionOnReject(p, e) == [p EXCEPT !.pc = "done", !.result = "false"]

\* Dashboard.tsx:37-53 (the mount effect) and 134-157 (handleTestConnection):
\* the toast shown once testConnection has settled.
ProbeToast(p) ==
    IF p.result = "threw"
    THEN "Connection Error"
    ELSE IF p.caller = "mount"
         THEN IF p.result = "true" THEN lastToast ELSE "Backend Connection Failed"
         ELSE IF p.result = "true" THEN "Connection Successful" ELSE "Connection Failed"

\* Dashboard.tsx:38, 47, 135, 150: setIsBackendConnected
ProbeConnected(p) == IF p.result = "true" THEN "true" ELSE "false"

-----------------------------------------------------------------------------
\* Strings

Chars == {" ", "a"}

\* What the user can have typed into the description field.
Descriptions == UNION { [1..n -> Chars] : n \in 0..MaxDescLen }

RECURSIVE TrimStart(_)
TrimStart(s) == IF s /= <<>> /\ Head(s) = " " THEN TrimStart(Tail(s)) ELSE s

RECURSIVE TrimEnd(_)
TrimEnd(s) ==
    IF s /= <<>> /\ s[Len(s)] = " " THEN TrimEnd(SubSeq(s, 1, Len(s) - 1)) ELSE s

\* String.prototype.trim
Trim(s) == TrimEnd(TrimStart(s))

\* Number.prototype.toString of a non-negative integer: its decimal digits.
RECURSIVE ToString(_)
ToString(n) == IF n < 10 THEN <<n>> ELSE Append(ToString(n \div 10), n % 10)

-----------------------------------------------------------------------------
\* Dashboard.handleVideoSubmit (Dashboard.tsx:59-125)

\* Dashboard.tsx:63-69; videoSize is bytes / (1024 * 1024), kept as the
\* fraction.
TempReport(blob, desc, t) ==
    [id |-> ToString(t), description |-> desc, status |-> "pending",
     submittedAt |-> t,
     videoSize |-> [bytes |-> BlobSize(blob), perMB |-> 1024 * 1024],
     analysis |-> NULL, analysisDate |-> NULL]

\* Dashboard.tsx:78-83
UpdatedReport(temp, data) ==
    [temp EXCEPT !.status = "completed",
                 !.analysis = Some(data.analysis),
                 !.analysisDate = Some(data.analysisDate)]

\* The update of Dashboard.tsx:85-87 without its test of the id.
ReportsOnSuccessAll(rs, temp, data) ==
    [j \in DOMAIN rs |->
        [temp EXCEPT !.status = "completed",
                     !.analysis = Some(data.analysis),
                     !.analysisDate = Some(data.analysisDate)]]

\* Dashboard.tsx:85-87
ReportsOnSuccess(rs, temp, data) ==
    [j \in DOMAIN rs |->
        IF rs[j].id = temp.id THEN UpdatedReport(temp, data) ELSE rs[j]]

\* The update if it did not test the id.
ReportsToReviewingAll(rs, id) ==
    [j \in DOMAIN rs |-> [rs[j] EXCEPT !.status = "reviewing"]]

\* Dashboard.tsx:95-99 (id is tempReport.id) and 111-115 (id is
\* Date.now().toString(), read when the catch block runs)
ReportsToReviewing(rs, id) ==
    [j \in DOMAIN rs |->
        IF rs[j].id = id THEN [rs[j] EXCEPT !.status = "reviewing"] ELSE rs[j]]

\* Dashboard.tsx:107-121: the catch block, run at time t.
SubmitCatch(rs, t) ==
    [reports |-> ReportsToReviewing(rs, ToString(t)), toast |-> "Upload Failed"]

\* Dashboard.tsx:74-121: what follows the await of the upload, run at time
\* t on the list rs, for the upload's outcome. Reading response.success of
\* null, or response.data.analysis of a result without data, throws a
\* TypeError inside the try block.
SubmitAfterUpload(rs, temp, outcome, t) ==
    IF outcome.kind = "returned"
    THEN IF outcome.value.isNull
         THEN SubmitCatch(rs, t)
         ELSE IF outcome.value.success = Some(TRUE)
              THEN IF outcome.value.data = NULL
                   THEN SubmitCatch(rs, t)
                   ELSE [reports |-> ReportsOnSuccess(rs, temp,
                                                      outcome.value.data[1]),
                         toast |-> "Analysis Complete!"]
              ELSE [reports |-> ReportsToReviewing(rs, temp.id),
                    toast |-> "Analysis Failed"]
    ELSE SubmitCatch(rs, t)

-----------------------------------------------------------------------------
\* VideoRecorder.handleSubmit (VideoRecorder.tsx:188-217)

\* The condition if the description were tested as typed.
HandleSubmitValidUntrimmed == recordedBlob /= NULL /\ description /= <<>>

\* VideoRecorder.tsx:189: the negation of the early return's condition
HandleSubmitValid == recordedBlob /= NULL /\ Trim(description) /= <<>>

\* The continuation if the clearing of lines 205-207 stood in the finally
\* block.
SubmitContinueClearsAlways(subs, k, result) ==
    /\ submits' = [subs EXCEPT ![k].pc = result]
    /\ isSubmitting' = FALSE
    /\ lastToast' = IF result = "resolved" THEN "Report Submitted"
                    ELSE "Submission Failed"
    /\ recordedVideoUrl' = 0
    /\ recordedBlob' = NULL
    /\ description' = <<>>

\* The continuation if the description were not cleared.
SubmitContinueKeepsText(subs, k, result) ==
    /\ submits' = [subs EXCEPT ![k].pc = result]
    /\ isSubmitting' = FALSE
    /\ IF result = "resolved"
       THEN /\ lastToast' = "Report Submitted"
            /\ recordedVideoUrl' = 0
            /\ recordedBlob' = NULL
            /\ UNCHANGED description
       ELSE /\ lastToast' = "Submission Failed"
            /\ UNCHANGED <<recordedVideoUrl, recordedBlob, description>>

\* VideoRecorder.tsx:201-216: what follows the await of the callback, for
\* invocation k of the list subs; result is "resolved" or "rejected".
SubmitContinue(subs, k, result) ==
    /\ submits' = [subs EXCEPT ![k].pc = result]
    /\ isSubmitting' = FALSE
    /\ IF result = "resolved"
       THEN /\ lastToast' = "Report Submitted"
            /\ recordedVideoUrl' = 0
            /\ recordedBlob' = NULL
            /\ description' = <<>>
       ELSE /\ lastToast' = "Submission Failed"
            /\ UNCHANGED <<recordedVideoUrl, recordedBlob, description>>

\* The callback's call as the recorder makes it (VideoRecorder.tsx:200).
CallbackCall(callback, k, blob, desc, pc, temp, call, toast) ==
    [callback |-> callback, submit |-> k, blob |-> blob, description |-> desc,
     pc |-> pc, tempReport |-> temp, call |-> call, toast |-> toast]

\* VideoRecorder.tsx:188-200 with onVideoSubmit a stand-in that settles
\* later (MockResolves, MockRejects).
HandleSubmitMock ==
    IF ~HandleSubmitValid
    THEN /\ lastToast' = "Missing Information"
         /\ UNCHANGED <<now, calls, probeVars, dashVars, recVars>>
    ELSE /\ Len(submits) < MaxCalls
         /\ LET k == Len(submits) + 1 IN
            /\ submits' = Append(submits,
                  [blob |-> recordedBlob[1], description |-> description,
                   url |-> recordedVideoUrl, pc |-> "awaiting"])
            /\ cbCalls' = Append(cbCalls,
                  CallbackCall("mock", k, recordedBlob[1], Trim(description),
                               "pending", NULL, 0, ""))
         /\ isSubmitting' = TRUE
         /\ UNCHANGED <<now, calls, probeVars, lastToast, reports, isLoading,
                        recordedVideoUrl, recordedBlob, description, camVars>>

\* VideoRecorder.tsx:188-200 with onVideoSubmit = Dashboard.handleVideoSubmit
\* (Dashboard.tsx:241), which runs to its await of the upload
\* (Dashboard.tsx:59-74), which runs to its await of fetch. If the upload
\* threw at once, the continuations of both callers run in the same task,
\* within the same millisecond.
HandleSubmitWired ==
    IF ~HandleSubmitValid
    THEN /\ lastToast' = "Missing Information"
         /\ UNCHANGED <<now, calls, probeVars, dashVars, recVars>>
    ELSE /\ Len(submits) < MaxCalls
         /\ LET k == Len(submits) + 1
                blob == recordedBlob[1]
                desc == Trim(description)
                temp == TempReport(blob, desc, now)
                c == UploadStart(Some(blob), desc, "dashboard", now)
                sub == [blob |-> blob, description |-> description,
                        url |-> recordedVideoUrl, pc |-> "awaiting"]
            IN
            /\ calls' = Append(calls, c)
            /\ IF c.pc = "done"
               THEN /\ LET after == SubmitAfterUpload(<<temp>> \o reports,
                                                      temp, c.outcome, now)
                       IN /\ reports' = after.reports
                          /\ cbCalls' = Append(cbCalls,
                                CallbackCall("dashboard", k, blob, desc,
                                             "resolved", Some(temp),
                                             Len(calls) + 1, after.toast))
                    /\ isLoading' = FALSE
                    /\ SubmitContinue(Append(submits, sub), k, "resolved")
                    /\ UNCHANGED now
               ELSE /\ reports' = <<temp>> \o reports
                    /\ isLoading' = TRUE
                    /\ cbCalls' = Append(cbCalls,
                          CallbackCall("dashboard", k, blob, desc, "pending",
                                       Some(temp), Len(calls) + 1, ""))
                    /\ submits' = Append(submits, sub)
                    /\ isSubmitting' = TRUE
                    /\ UNCHANGED <<now, lastToast, recordedVideoUrl,
                                   recordedBlob, description>>
         /\ UNCHANGED <<probeVars, camVars>>

-----------------------------------------------------------------------------
\* The environment's inputs

Statuses == {200, 204, 404, 500}

\* What fetch can reject with when the transport fails: the TypeError of
\* the Fetch standard, or (a replaced fetch) a value that is no Error.
TransportFailures ==
    { Thrown(TRUE, "TypeError", Msg("Failed to fetch")),
      Thrown(FALSE, "", Msg("")) }

AnalysisData == [analysis |-> "analysis text", analysisDate |-> "2025-01-01"]

Parsed(v) == [parsed |-> TRUE, value |-> v, error |-> Thrown(TRUE, "", Msg(""))]
Unparsed(e) == [parsed |-> FALSE, value |-> EmptyObject, error |-> e]

\* What response.json() can settle with.
Bodies ==
    { Parsed(Json(Some(TRUE), Some("Video analyzed"), Some(AnalysisData))),
      Parsed(Json(Some(FALSE), Some("Analysis failed"), NULL)),
      Parsed(Json(NULL, Some("Video too large"), NULL)),
      Parsed(Json(NULL, Some(""), NULL)),
      Parsed(EmptyObject),
      Parsed(JsonNull),
      Unparsed(Thrown(TRUE, "SyntaxError", Msg("Unexpected end of JSON input"))) }

\* The responses and the typed descriptions tried in the wired system
DashboardStatuses == {200, 500}
DashboardBodies ==
    { Parsed(Json(Some(TRUE), Some("Video analyzed"), Some(AnalysisData))),
      Parsed(Json(Some(FALSE), Some("Analysis failed"), NULL)),
      Parsed(EmptyObject),
      Unparsed(Thrown(TRUE, "SyntaxError", Msg("Unexpected end of JSON input"))) }
DashboardDescriptions == { <<" ">>, <<" ", "a">>, <<"a", "a">> }

\* The blobs a direct caller of the client passes.
HarnessBlobs ==
    { NULL,
      Some(MkBlob(<<>>, "video/mp4")),
      Some(MkBlob(<<1>>, "video/mp4")) }

-----------------------------------------------------------------------------
\* Actions of the environment

\* Time passes.
Tick ==
    /\ now + TickMs <= MaxNow
    /\ now' = now + TickMs
    /\ UNCHANGED <<calls, probeVars, lastToast, dashVars, recVars>>

\* The continuation of the caller once call i has settled as c2.
\* For the Dashboard that is Dashboard.tsx:74-124, after which the promise
\* of handleVideoSubmit resolves and VideoRecorder.handleSubmit continues.
Settled(i, c2) ==
    IF c2.caller = "dashboard"
    THEN LET k == CHOOSE k \in DOMAIN cbCalls : cbCalls[k].call = i
             after == SubmitAfterUpload(reports, cbCalls[k].tempReport[1],
                                        c2.outcome, now)
         IN /\ reports' = after.reports
            /\ isLoading' = FALSE
            /\ cbCalls' = [cbCalls EXCEPT ![k].pc = "resolved",
                                          ![k].toast = after.toast]
            /\ SubmitContinue(submits, cbCalls[k].submit, "resolved")
            /\ UNCHANGED <<probeVars, camVars>>
    ELSE UNCHANGED <<probeVars, lastToast, dashVars, recVars>>

FetchResponds(i, status) ==
    /\ calls[i].pc = "fetch"
    /\ calls' = [calls EXCEPT ![i] = UploadOnResponse(calls[i], status)]
    /\ UNCHANGED <<now, probeVars, lastToast, dashVars, recVars>>

BodyRead(i, body) ==
    /\ calls[i].pc \in {"okBody", "errorBody"}
    /\ LET c2 == UploadOnBody(calls[i], body) IN
       /\ calls' = [calls EXCEPT ![i] = c2]
       /\ Settled(i, c2)
    /\ UNCHANGED now

FetchRejects(i, e) ==
    /\ calls[i].pc = "fetch"
    /\ LET c2 == UploadCatch(calls[i], e) IN
       /\ calls' = [calls EXCEPT ![i] = c2]
       /\ Settled(i, c2)
    /\ UNCHANGED now

AbortTimerFires(i) ==
    /\ calls[i].pc = "fetch"
    /\ TimerDue(calls[i], now)
    /\ LET c2 == UploadOnAbort(calls[i]) IN
       /\ calls' = [calls EXCEPT ![i] = c2]
       /\ Settled(i, c2)
    /\ UNCHANGED now

\* A direct call of the client (a test of the client, or any other caller).
ApiCall(blobOpt) ==
    /\ Len(calls) < MaxCalls
    /\ calls' = Append(calls, UploadStart(blobOpt, <<"a">>, "harness", now))
    /\ UNCHANGED <<now, probeVars, lastToast, dashVars, recVars>>

\* The continuation in the Dashboard once probe i has settled as p2.
ProbeSettled(i, p2) ==
    /\ probes' = [probes EXCEPT ![i] = p2]
    /\ isBackendConnected' =
          IF p2.pc = "done" THEN ProbeConnected(p2) ELSE isBackendConnected
    /\ lastToast' = IF p2.pc = "done" THEN ProbeToast(p2) ELSE lastToast
    /\ UNCHANGED <<now, calls, dashVars, recVars>>

\* Dashboard.tsx:132-134: a click on "Test Connection"
HandleTestConnection ==
    /\ Len(probes) < MaxProbes
    /\ probes' = Append(probes, TestConnectionStart("button"))
    /\ UNCHANGED <<now, calls, isBackendConnected, lastToast, dashVars, recVars>>

ProbeResponds(i, status) ==
    /\ probes[i].pc = "fetch"
    /\ ProbeSettled(i, TestConnectionOnResponse(probes[i], status))

ProbeBodyRead(i, body) ==
    /\ probes[i].pc = "body"
    /\ ProbeSettled(i, TestConnectionOnBody(probes[i], body))

ProbeRejects(i, e) ==
    /\ probes[i].pc = "fetch"
    /\ ProbeSettled(i, TestConnectionOnReject(probes[i], e))

\* The VideoRecorder after its first render and its mount effect
\* (VideoRecorder.tsx:220-222), which has called startCamera.
InitRecorder ==
    /\ isRecording = FALSE
    /\ recordedVideoUrl = 0
    /\ recordedBlob = NULL
    /\ description = <<>>
    /\ isSubmitting = FALSE
    /\ hasPermission = "null"
    /\ videoSrcObject = 0
    /\ mediaRecorderRef = 0
    /\ chunksRef = <<>>
    /\ streamRef = 0
    /\ recorders = <<>>
    /\ liveStreams = {}
    /\ acquisitions = [made |-> 1, pending |-> 1, byReset |-> 0, granted |-> 0]
    /\ urlCount = 0
    /\ noStreamStarts = 0
    /\ uncaught = 0
    /\ submits = <<>>

\* The Dashboard page after its first render. Its connection probe shares
\* no state with the submit flow and is followed on its own (SpecProbe).
Init ==
    /\ now = 0
    /\ calls = <<>>
    /\ probes = <<>>
    /\ isBackendConnected = "null"
    /\ lastToast = ""
    /\ reports = <<>>
    /\ isLoading = FALSE
    /\ cbCalls = <<>>
    /\ InitRecorder

NextApi ==
    \/ Tick
    \/ \E b \in HarnessBlobs : ApiCall(b)
    \/ \E i \in DOMAIN calls, s \in Statuses : FetchResponds(i, s)
    \/ \E i \in DOMAIN calls, b \in Bodies : BodyRead(i, b)
    \/ \E i \in DOMAIN calls, e \in TransportFailures : FetchRejects(i, e)
    \/ \E i \in DOMAIN calls : AbortTimerFires(i)

SpecApi == Init /\ [][NextApi]_vars

\* The Dashboard after its mount effect (Dashboard.tsx:34-57) has called
\* testConnection.
InitProbe ==
    /\ now = 0
    /\ calls = <<>>
    /\ probes = <<TestConnectionStart("mount")>>
    /\ isBackendConnected = "null"
    /\ lastToast = ""
    /\ reports = <<>>
    /\ isLoading = FALSE
    /\ cbCalls = <<>>
    /\ InitRecorder

NextProbe ==
    \/ HandleTestConnection
    \/ \E i \in DOMAIN probes, s \in Statuses : ProbeResponds(i, s)
    \/ \E i \in DOMAIN probes, b \in Bodies : ProbeBodyRead(i, b)
    \/ \E i \in DOMAIN probes, e \in TransportFailures : ProbeRejects(i, e)

SpecProbe == InitProbe /\ [][NextProbe]_vars

-----------------------------------------------------------------------------
\* VideoRecorder: camera and recording (VideoRecorder.tsx:36-186)

\* The main card is rendered (VideoRecorder.tsx:224-242).
MainUiShown == hasPermission /= "false"

\* videoRef.current is set: the preview <video ref={videoRef}> is rendered
\* (VideoRecorder.tsx:254-275).
VideoRefCurrent == MainUiShown /\ recordedVideoUrl = 0

\* The recorder shows a finished recording: the playback element and the
\* description form are rendered (VideoRecorder.tsx:254-264, 309), nothing
\* is being recorded and the camera has been released.
Recorded ==
    /\ recordedVideoUrl /= 0 /\ recordedBlob /= NULL
    /\ ~isRecording /\ streamRef = 0

\* VideoRecorder.tsx:36-52: startCamera up to its await of getUserMedia;
\* reset says whether resetRecording made the call in state Recorded.
StartCamera(reset) ==
    /\ acquisitions.made < MaxAcquisitions
    /\ acquisitions' = [acquisitions EXCEPT
                           !.made = @ + 1, !.pending = @ + 1,
                           !.byReset = IF reset THEN @ + 1 ELSE @]

\* The pending getUserMedia calls settle in any order: whether the one that
\* settles can be one resetRecording made in state Recorded (r = 1) or
\* another one (r = 0).
CanSettle(r) ==
    /\ acquisitions.pending > 0
    /\ IF r = 1 THEN acquisitions.byReset > 0
       ELSE acquisitions.pending > acquisitions.byReset

\* VideoRecorder.tsx:52-66: getUserMedia resolved with a new stream
CameraGranted(r) ==
    /\ CanSettle(r)
    /\ LET stream == acquisitions.granted + 1 IN
       /\ acquisitions' = [acquisitions EXCEPT !.pending = @ - 1,
                                               !.byReset = @ - r,
                                               !.granted = stream]
       /\ streamRef' = stream
       /\ liveStreams' = liveStreams \cup {stream}
       /\ hasPermission' = "true"
       /\ videoSrcObject' = IF VideoRefCurrent THEN stream
                            ELSE IF MainUiShown THEN videoSrcObject ELSE 0
    /\ UNCHANGED <<now, calls, probeVars, lastToast, dashVars, formVars,
                   isRecording, mediaRecorderRef, chunksRef, recorders, urlCount,
                   noStreamStarts, uncaught>>

\* VideoRecorder.tsx:67-75: getUserMedia rejected; the permission card
\* replaces the main card, and with it the preview element.
CameraDenied(r) ==
    /\ CanSettle(r)
    /\ acquisitions' = [acquisitions EXCEPT !.pending = @ - 1,
                                            !.byReset = @ - r]
    /\ hasPermission' = "false"
    /\ lastToast' = "Camera Access Denied"
    /\ videoSrcObject' = 0
    /\ UNCHANGED <<now, calls, probeVars, dashVars, formVars, isRecording,
                   mediaRecorderRef, chunksRef, streamRef, recorders,
                   liveStreams, urlCount, noStreamStarts, uncaught>>

\* VideoRecorder.tsx:233: a click on "Try Again"
TryAgain ==
    /\ hasPermission = "false"
    /\ StartCamera(FALSE)
    /\ UNCHANGED <<now, calls, probeVars, lastToast, dashVars, formVars,
                   isRecording, hasPermission, videoSrcObject, mediaRecorderRef,
                   chunksRef, streamRef, recorders, liveStreams, urlCount,
                   noStreamStarts, uncaught>>

\* startRecording without the test of line 79: with no stream it resets the
\* chunk buffer and `new MediaRecorder(null)` throws a TypeError.
StartRecordingUnguarded ==
    /\ MainUiShown /\ recordedVideoUrl = 0 /\ ~isRecording
    /\ IF streamRef = 0
       THEN /\ uncaught < MaxNoStreamStarts
            /\ uncaught' = uncaught + 1
            /\ chunksRef' = <<>>
            /\ UNCHANGED <<now, calls, probeVars, lastToast, dashVars, formVars,
                           isRecording, hasPermission, videoSrcObject,
                           mediaRecorderRef, streamRef, recorders,
                           liveStreams, acquisitions, urlCount, noStreamStarts>>
       ELSE /\ Len(recorders) < MaxRecorders
            /\ chunksRef' = <<>>
            /\ recorders' = Append(recorders,
                  [stream |-> streamRef, state |-> "recording", data |-> <<>>])
            /\ mediaRecorderRef' = Len(recorders) + 1
            /\ isRecording' = TRUE
            /\ UNCHANGED <<now, calls, probeVars, lastToast, dashVars, formVars,
                           hasPermission, videoSrcObject, streamRef,
                           liveStreams, acquisitions, urlCount,
                           noStreamStarts, uncaught>>

\* VideoRecorder.tsx:78-169: a click on "Start Recording" (rendered at 290)
StartRecording ==
    /\ MainUiShown /\ recordedVideoUrl = 0 /\ ~isRecording
    /\ IF streamRef = 0
       THEN /\ noStreamStarts < MaxNoStreamStarts
            /\ noStreamStarts' = noStreamStarts + 1
            /\ UNCHANGED <<now, calls, probeVars, lastToast, dashVars, formVars,
                           isRecording, hasPermission, videoSrcObject,
                           mediaRecorderRef, chunksRef, streamRef, recorders,
                           liveStreams, acquisitions, urlCount, uncaught>>
       ELSE /\ Len(recorders) < MaxRecorders
            /\ chunksRef' = <<>>
            /\ recorders' = Append(recorders,
                  [stream |-> streamRef, state |-> "recording", data |-> <<>>])
            /\ mediaRecorderRef' = Len(recorders) + 1
            /\ isRecording' = TRUE
            /\ UNCHANGED <<now, calls, probeVars, lastToast, dashVars, formVars,
                           hasPermission, videoSrcObject, streamRef,
                           liveStreams, acquisitions, urlCount,
                           noStreamStarts, uncaught>>

\* VideoRecorder.tsx:171-176: a click on "Stop Recording" (rendered at 295)
StopRecording ==
    /\ MainUiShown /\ recordedVideoUrl = 0 /\ isRecording
    /\ IF mediaRecorderRef /= 0 /\ isRecording
       THEN /\ recorders' = [recorders EXCEPT ![mediaRecorderRef].state =
                      IF @ \in {"recording", "ended"} THEN "stopping" ELSE @]
            /\ isRecording' = FALSE
       ELSE UNCHANGED <<recorders, isRecording>>
    /\ UNCHANGED <<now, calls, probeVars, lastToast, dashVars, formVars,
                   hasPermission, videoSrcObject, mediaRecorderRef, chunksRef,
                   streamRef, liveStreams, acquisitions, urlCount,
                   noStreamStarts, uncaught>>

\* Stopping the tracks of stream s ends them; a MediaRecorder that is
\* recording a stream whose tracks have all ended is stopped by the
\* platform, which queues the same task as for stop(). A recorder's state
\* is "recording", "stopping" (stop() was called, its task is queued),
\* "ended" (its tracks ended, the task is queued) or "inactive".
TracksStopped(rs, s) ==
    [j \in DOMAIN rs |->
        IF s /= 0 /\ rs[j].stream = s /\ rs[j].state = "recording"
        THEN [rs[j] EXCEPT !.state = "ended"]
        ELSE rs[j]]

\* VideoRecorder.tsx:127-164: the task the platform queues for stop(): it
\* fires dataavailable with the recorded data (size bytes), then stop.
\* start() is called without a timeslice (VideoRecorder.tsx:167), so this
\* is the only dataavailable event of recorder r; data is what r delivered
\* to its handler in chunks that were not empty.
RecorderStops(r, size) ==
    /\ recorders[r].state \in {"stopping", "ended"}
    /\ LET chunks == IF size > 0 THEN Append(chunksRef, size) ELSE chunksRef
           data == IF size > 0 THEN Append(recorders[r].data, size)
                   ELSE recorders[r].data
       IN
       /\ recorders' = TracksStopped(
              [recorders EXCEPT ![r].state = "inactive", ![r].data = data],
              streamRef)
       /\ chunksRef' = chunks
       /\ recordedBlob' = Some(MkBlob(chunks, "video/mp4"))
    /\ urlCount' = urlCount + 1
    /\ recordedVideoUrl' = urlCount + 1
    /\ liveStreams' = liveStreams \ {streamRef}
    /\ streamRef' = 0
    /\ videoSrcObject' = IF VideoRefCurrent THEN 0 ELSE videoSrcObject
    /\ UNCHANGED <<now, calls, probeVars, lastToast, dashVars, description,
                   isSubmitting, submits, isRecording, hasPermission,
                   mediaRecorderRef, acquisitions, noStreamStarts, uncaught>>

\* VideoRecorder.tsx:178-186: a click on "Record Again" (rendered at 301)
ResetRecording ==
    /\ MainUiShown /\ recordedVideoUrl /= 0
    /\ recordedVideoUrl' = 0
    /\ recordedBlob' = NULL
    /\ description' = <<>>
    /\ chunksRef' = <<>>
    /\ StartCamera(Recorded)
    /\ UNCHANGED <<now, calls, probeVars, lastToast, dashVars, isSubmitting,
                   submits, isRecording, hasPermission, videoSrcObject,
                   mediaRecorderRef, streamRef, recorders, liveStreams, urlCount,
                   noStreamStarts, uncaught>>

\* VideoRecorder.tsx:319: the user edits the description (rendered at 309)
SetDescription(d) ==
    /\ MainUiShown /\ recordedVideoUrl /= 0
    /\ d /= description
    /\ description' = d
    /\ UNCHANGED <<now, calls, probeVars, lastToast, dashVars, camVars,
                   recordedVideoUrl, recordedBlob, isSubmitting, submits>>

\* Two clicks on "Submit Report" are more than a millisecond apart: the UI
\* asks for a new recording in between.
ClockMovedSinceLastSubmit == \A j \in DOMAIN reports : reports[j].submittedAt < now

\* A "Submit Report" button that is not disabled while a submit is pending.
SubmitEnabledWhileBusy == Trim(description) /= <<>>

\* VideoRecorder.tsx:326: the button is not disabled
SubmitEnabled == ~isSubmitting /\ Trim(description) /= <<>>

\* VideoRecorder.tsx:324-326: a click on "Submit Report" in the Dashboard
HandleSubmit ==
    /\ MainUiShown /\ recordedVideoUrl /= 0
    /\ SubmitEnabled
    /\ ClockMovedSinceLastSubmit
    /\ HandleSubmitWired

\* handleSubmit called with a stand-in callback, in any state of the recorder
MockHandleSubmit == HandleSubmitMock

\* The stand-in callback's promise resolves.
MockResolves(k) ==
    /\ cbCalls[k].callback = "mock" /\ cbCalls[k].pc = "pending"
    /\ cbCalls' = [cbCalls EXCEPT ![k].pc = "resolved"]
    /\ SubmitContinue(submits, cbCalls[k].submit, "resolved")
    /\ UNCHANGED <<now, calls, probeVars, reports, isLoading, camVars>>

\* The stand-in callback's promise rejects.
MockRejects(k) ==
    /\ cbCalls[k].callback = "mock" /\ cbCalls[k].pc = "pending"
    /\ cbCalls' = [cbCalls EXCEPT ![k].pc = "rejected"]
    /\ SubmitContinue(submits, cbCalls[k].submit, "rejected")
    /\ UNCHANGED <<now, calls, probeVars, reports, isLoading, camVars>>

ChunkSizes == 0..MaxChunkSize

NextCamera ==
    \/ \E r \in {0, 1} : CameraGranted(r)
    \/ \E r \in {0, 1} : CameraDenied(r)
    \/ TryAgain
    \/ StartRecording
    \/ StopRecording
    \/ \E r \in DOMAIN recorders, size \in ChunkSizes : RecorderStops(r, size)
    \/ ResetRecording

\* The VideoRecorder with a stand-in for its onVideoSubmit callback
NextMock ==
    \/ NextCamera
    \/ \E d \in Descriptions : SetDescription(d)
    \/ MockHandleSubmit
    \/ \E k \in DOMAIN cbCalls : MockResolves(k)
    \/ \E k \in DOMAIN cbCalls : MockRejects(k)

SpecMock == Init /\ [][NextMock]_vars

\* The wired system: the Dashboard page with its VideoRecorder and the
\* ApiService
Next ==
    \/ Tick
    \/ NextCamera
    \/ \E d \in DashboardDescriptions : SetDescription(d)
    \/ HandleSubmit
    \/ \E i \in DOMAIN calls, st \in DashboardStatuses : FetchResponds(i, st)
    \/ \E i \in DOMAIN calls, b \in DashboardBodies : BodyRead(i, b)
    \/ \E i \in DOMAIN calls, e \in TransportFailures : FetchRejects(i, e)
    \/ \E i \in DOMAIN calls : AbortTimerFires(i)

Spec == Init /\ [][Next]_vars

\* api.ts:47: the callback of the timer of call i as a task of the event
\* loop
TimerTask(i) == i \in DOMAIN calls /\ AbortTimerFires(i)

\* The wired system with what its scheduling guarantees: time passes, and
\* the event loop runs the callback of a timer that is due. Nothing obliges
\* the server to answer a request or to finish a body it has begun, so the
\* steps of the network carry no fairness.
SpecFair ==
    /\ Init /\ [][Next]_vars
    /\ WF_vars(Tick)
    /\ \A i \in 1..MaxCalls : WF_vars(TimerTask(i))

-----------------------------------------------------------------------------
\* Properties of ApiService

TimeoutError == Threw("Error", TimeoutMsg)
ValidationError == Threw("Error", InvalidBlobMsg)

\* The fetch of call c rejected for a transport reason (no response arrived
\* and it was not the abort of the call's timer).
TransportFailed(c) ==
    /\ c.pc = "done" /\ c.request /= NULL /\ c.status = 0
    /\ c.timer /= "fired" /\ c.caught /= NULL

\* C7: a call with a null blob or a blob of size 0 has failed with the
\* validation error at once, and has neither issued a fetch nor started an
\* abort timer; this holds in every state, so no request is ever observed.
C7_InvalidBlobFailsBeforeFetch ==
    \A i \in DOMAIN calls :
        InvalidBlob(calls[i].blob) =>
            /\ calls[i].outcome = ValidationError
            /\ calls[i].request = NULL
            /\ calls[i].timer = "none"

C7_Witness ==
    /\ \E i \in DOMAIN calls : calls[i].blob = NULL
    /\ \E i \in DOMAIN calls :
          calls[i].blob /= NULL /\ BlobSize(calls[i].blob[1]) = 0

\* C8: a call that has had no response and no transport failure stays
\* pending with its timer armed; it fails with the timeout error exactly
\* when its own abort timer has fired, which is never earlier than
\* TimeoutMs after the call started and never after a response arrived.
C8_TimeoutOnlyWhenTimerFires ==
    \A i \in DOMAIN calls :
        LET c == calls[i] IN
        /\ c.pc = "fetch" => c.outcome = Pending /\ c.timer = "armed"
        /\ c.outcome = TimeoutError <=> c.timer = "fired"
        /\ c.timer = "fired" =>
              /\ now >= c.startedAt + TimeoutMs
              /\ c.status = 0

C8_Witness ==
    \E i, j \in DOMAIN calls :
        /\ calls[i].timer = "fired"
        /\ calls[j].timer = "armed" /\ calls[j].startedAt > calls[i].startedAt

\* C9 as claimed: every transport failure of the fetch other than the abort
\* makes the call fail with the 'Network error occurred' error.
C9_TransportFailureIsNetworkError ==
    \A i \in DOMAIN calls :
        TransportFailed(calls[i]) =>
            calls[i].outcome = Threw("Error", NetworkErrorMsg)

\* C9 amended: on a transport failure of the fetch the call fails with the
\* very Error fetch raised when the thrown value is an Error, and with the
\* 'Network error occurred' error only when it is not an Error; it is never
\* the timeout error.
C9_TransportFailureRethrown ==
    \A i \in DOMAIN calls :
        LET c == calls[i] IN
        TransportFailed(c) =>
            /\ c.caught[1].isError =>
                  c.outcome = Threw(c.caught[1].name, c.caught[1].message)
            /\ ~c.caught[1].isError =>
                  c.outcome = Threw("Error", NetworkErrorMsg)
            /\ c.outcome /= TimeoutError

C9_Witness ==
    /\ \E i \in DOMAIN calls :
          TransportFailed(calls[i]) /\ calls[i].caught[1].isError
    /\ \E i \in DOMAIN calls :
          TransportFailed(calls[i]) /\ ~calls[i].caught[1].isError

\* C10: testConnection never throws; it settles with true for every 2xx
\* response and with false for every other response and every rejected
\* fetch.
C10_TestConnectionTrueOnEvery2xx ==
    \A i \in DOMAIN probes :
        probes[i].pc = "done" =>
            /\ probes[i].result /= "threw"
            /\ probes[i].result =
                  (IF ResponseOk(probes[i].status) THEN "true" ELSE "false")

\* Call c got a response that is not ok and has read its body.
NonOkResponse(c) ==
    c.pc = "done" /\ c.status /= 0 /\ ~ResponseOk(c.status) /\ c.body /= NULL

\* The error body of call c parsed as JSON and has a (non-empty) message.
HasMessage(c) ==
    /\ c.body[1].parsed
    /\ TruthyString(c.body[1].value.message)

\* C18: on a response that is not 2xx the call returns no result: it fails
\* with an Error whose message is the error body's message field when the
\* body parses as JSON and has one, and the generic message with the
\* status code otherwise.
C18_NonOkFailsWithServiceMessage ==
    \A i \in DOMAIN calls :
        LET c == calls[i] IN
        NonOkResponse(c) =>
            c.outcome = Threw("Error",
                              IF HasMessage(c)
                              THEN Msg(c.body[1].value.message[1])
                              ELSE HttpErrorMsg(c.status))

-----------------------------------------------------------------------------
\* Properties of the submit flow

TimedOut(c) == c.pc = "done" /\ c.timer = "fired"
ServiceFailed(c) == c.pc = "done" /\ c.status /= 0 /\ ~ResponseOk(c.status)

RecordingUnchanged ==
    /\ recordedBlob' = recordedBlob
    /\ recordedVideoUrl' = recordedVideoUrl
    /\ description' = description

\* C1: in the wired system, a step in which an upload fails with a timeout,
\* a service error or a network error leaves the recorder's blob, playback
\* URL and description as they were.
C1_UploadFailureKeepsRecording ==
    [][\A i \in DOMAIN calls :
          ( /\ calls[i].caller = "dashboard"
            /\ calls[i].pc /= "done"
            /\ \/ TimedOut(calls'[i])
               \/ ServiceFailed(calls'[i])
               \/ TransportFailed(calls'[i]) )
          => RecordingUnchanged]_vars

\* C2: once handleVideoSubmit has finished for a submit whose upload threw,
\* the Report it prepended is in the list with status Reviewing.
C2_FailedSubmitReportIsReviewing ==
    \A k \in DOMAIN cbCalls :
        ( /\ cbCalls[k].callback = "dashboard"
          /\ cbCalls[k].pc /= "pending"
          /\ calls[cbCalls[k].call].outcome.kind = "threw" )
        => \E j \in DOMAIN reports :
              /\ reports[j].id = cbCalls[k].tempReport[1].id
              /\ reports[j].status = "reviewing"

\* C3: handleSubmit with a callback that rejects changes neither the blob,
\* the playback URL nor the description, when it starts or when it
\* continues after the rejection, and then the busy flag is false.
C3_RejectKeepsRecording ==
    [][\A k \in DOMAIN submits' :
          /\ k \notin DOMAIN submits => RecordingUnchanged
          /\ ( k \in DOMAIN submits /\ submits[k].pc = "awaiting"
               /\ submits'[k].pc = "rejected" )
             => RecordingUnchanged /\ isSubmitting' = FALSE]_vars

C3_Witness ==
    \E k \in DOMAIN submits :
        /\ submits[k].pc = "rejected"
        /\ recordedBlob = Some(submits[k].blob)
        /\ description = submits[k].description
        /\ recordedVideoUrl /= 0
        /\ ~isSubmitting

\* C4: handleSubmit invoked while the description is empty or only
\* whitespace, or while there is no recorded blob, does not call the
\* callback, makes no upload, does not set the busy flag, and leaves blob,
\* URL and description unchanged.
C4_InvalidSubmitDoesNothing ==
    [][( /\ MockHandleSubmit
         /\ (recordedBlob = NULL \/ Trim(description) = <<>>) )
       => /\ UNCHANGED <<cbCalls, calls, submits, isSubmitting>>
          /\ RecordingUnchanged]_vars

C4_Witness ==
    /\ lastToast = "Missing Information"
    /\ recordedBlob /= NULL
    /\ description /= <<>>
    /\ cbCalls = <<>>

\* The callback was called exactly once for invocation k of handleSubmit,
\* with the blob and the trimmed description of that invocation.
CallbackCalledOnce(k) ==
    /\ Cardinality({c \in DOMAIN cbCalls : cbCalls[c].submit = k}) = 1
    /\ \A c \in DOMAIN cbCalls :
          cbCalls[c].submit = k =>
              /\ cbCalls[c].blob = submits[k].blob
              /\ cbCalls[c].description = Trim(submits[k].description)

\* C5: when the callback resolves, handleSubmit leaves the blob and the
\* playback URL null, the description empty and the busy flag false, and
\* it has called the callback exactly once, with the blob and the trimmed
\* description.
C5_ResolveClearsRecording ==
    [][\A k \in DOMAIN submits :
          (submits[k].pc = "awaiting" /\ submits'[k].pc = "resolved")
          => /\ recordedBlob' = NULL
             /\ recordedVideoUrl' = 0
             /\ description' = <<>>
             /\ isSubmitting' = FALSE
             /\ CallbackCalledOnce(k)
             /\ cbCalls' = [cbCalls EXCEPT ![k].pc = "resolved"]]_vars

C5_Witness ==
    \E k \in DOMAIN submits :
        /\ submits[k].pc = "resolved"
        /\ submits[k].description /= Trim(submits[k].description)
        /\ recordedBlob = NULL /\ recordedVideoUrl = 0
        /\ description = <<>> /\ ~isSubmitting

\* C6: in the step in which an upload returns a result with success = true
\* (and its data), exactly the Report of that submit, until then Pending,
\* becomes Completed with the result's analysis and analysisDate; its id,
\* description, submittedAt and videoSize stay, and so does every other
\* Report.
C6_SuccessCompletesOwnReport ==
    [][\A k \in DOMAIN cbCalls :
          LET c == calls'[cbCalls[k].call]
              temp == cbCalls[k].tempReport[1]
          IN
          ( /\ cbCalls[k].callback = "dashboard"
            /\ cbCalls[k].pc = "pending" /\ cbCalls'[k].pc = "resolved"
            /\ c.outcome.kind = "returned"
            /\ c.outcome.value.success = Some(TRUE)
            /\ c.outcome.value.data /= NULL )
          => /\ DOMAIN reports' = DOMAIN reports
             /\ Cardinality({j \in DOMAIN reports : reports[j].id = temp.id}) = 1
             /\ \A j \in DOMAIN reports :
                   IF reports[j].id = temp.id
                   THEN /\ reports[j] = temp
                        /\ reports'[j].status = "completed"
                        /\ reports'[j].analysis =
                              Some(c.outcome.value.data[1].analysis)
                        /\ reports'[j].analysisDate =
                              Some(c.outcome.value.data[1].analysisDate)
                        /\ reports'[j].id = temp.id
                        /\ reports'[j].description = temp.description
                        /\ reports'[j].submittedAt = temp.submittedAt
                        /\ reports'[j].videoSize = temp.videoSize
                   ELSE reports'[j] = reports[j]]_vars

C6_Witness ==
    /\ Len(reports) > 1
    /\ reports[1].status = "completed"
    /\ reports[1].analysis = Some(AnalysisData.analysis)
    /\ reports[2].status /= "completed"

-----------------------------------------------------------------------------
\* Properties of the recorder's camera and recording

\* streamRef holds a stream whose tracks have not been stopped.
StreamHeld == streamRef /= 0 /\ streamRef \in liveStreams

\* C11: at most one camera stream is live, and startCamera is never started
\* while a stream is held or while another acquisition is pending: never
\* are two acquisitions pending, and never is one pending while streamRef
\* holds a live stream (which a grant would then overwrite).
C11_AtMostOneLiveStream ==
    /\ Cardinality(liveStreams) <= 1
    /\ acquisitions.pending <= 1
    /\ StreamHeld => acquisitions.pending = 0

\* Recorder r was stopped by stopRecording and its stop task has run.
StoppedByUser(r) == recorders[r].state = "stopping" /\ recorders'[r].state = "inactive"

\* C12: stopRecording in state Recording leads to Recorded: when the stop
\* task of the recorder it stopped has run, the recording flag is false,
\* the tracks of that recorder's stream are stopped, streamRef is null, the
\* preview binding is cleared and the recorded blob consists of exactly
\* the non-empty chunks that recorder delivered, in order; and in no state
\* is the recording flag false after a stop while the stopped recorder's
\* stream is still live.
C12_StopLeadsToRecorded ==
    [][/\ \A r \in DOMAIN recorders :
             StoppedByUser(r) =>
                 /\ ~isRecording'
                 /\ recorders[r].stream \notin liveStreams'
                 /\ streamRef' = 0
                 /\ videoSrcObject' = 0
                 /\ recordedVideoUrl' /= 0
                 /\ recordedBlob' = Some(MkBlob(recorders'[r].data, "video/mp4"))
       /\ \A r \in DOMAIN recorders' :
             (recorders'[r].state \in {"stopping", "inactive"} /\ ~isRecording')
                 => recorders'[r].stream \notin liveStreams']_vars

\* C13: startRecording invoked while streamRef is null does nothing: no
\* exception escapes it, no recorder is created, the chunk buffer is not
\* reset, and the recording flag, the blob, the playback URL and the
\* description stay as they were.
C13_StartWithoutStreamIsNoOp ==
    [][(StartRecording /\ streamRef = 0)
       => /\ UNCHANGED <<uncaught, recorders, mediaRecorderRef, chunksRef,
                         isRecording>>
          /\ RecordingUnchanged]_vars

C13_Witness ==
    /\ noStreamStarts > 0
    /\ chunksRef /= <<>>
    /\ streamRef = 0 /\ recordedVideoUrl = 0 /\ ~isRecording

\* A getUserMedia call was granted, or denied, in this step.
GrantStep == acquisitions'.granted > acquisitions.granted
DenyStep ==
    /\ acquisitions'.pending < acquisitions.pending
    /\ acquisitions'.granted = acquisitions.granted

\* C14: every granted startCamera call, also one made through "Try Again",
\* ends with hasPermission true and the live stream bound to the preview
\* element; every denied call ends with the permission card shown (which
\* offers the retry) and no stream held.
C14_GrantBindsPreview ==
    [][/\ GrantStep => /\ hasPermission' = "true"
                       /\ StreamHeld'
                       /\ videoSrcObject' = streamRef'
       /\ DenyStep => /\ hasPermission' = "false"
                      /\ streamRef' = 0]_vars

Previewing ==
    /\ StreamHeld /\ ~isRecording
    /\ recordedBlob = NULL /\ description = <<>>

\* An acquisition that resetRecording started in state Recorded was granted
\* in this step.
ResetGrantStep == GrantStep /\ acquisitions'.byReset < acquisitions.byReset

\* C15: resetRecording from Recorded discards the blob, the playback URL,
\* the buffered chunks and the description and starts exactly one
\* acquisition; when that acquisition is granted, the recorder is in
\* Previewing: a stream is held, nothing is being recorded, there is no
\* blob and the description is empty.
C15_ResetReturnsToPreviewing ==
    [][/\ (ResetRecording /\ Recorded)
          => /\ recordedBlob' = NULL /\ recordedVideoUrl' = 0
             /\ chunksRef' = <<>> /\ description' = <<>>
             /\ acquisitions'.made = acquisitions.made + 1
             /\ acquisitions'.pending = acquisitions.pending + 1
       /\ ResetGrantStep => Previewing']_vars

\* C19: while the recording flag is true a stream is held and the current
\* MediaRecorder is recording that stream, also when startRecording ran
\* after stopRecording and before the stopped recorder's onstop handler.
C19_RecordingImpliesActiveRecorder ==
    isRecording =>
        /\ StreamHeld
        /\ mediaRecorderRef /= 0
        /\ recorders[mediaRecorderRef].state = "recording"
        /\ recorders[mediaRecorderRef].stream = streamRef

-----------------------------------------------------------------------------
\* Properties of the wired system

\* The calls of the submission callback, and the uploads, that have not
\* settled.
CallbacksInFlight == {k \in DOMAIN cbCalls : cbCalls[k].pc = "pending"}
UploadsInFlight == {i \in DOMAIN calls : calls[i].pc /= "done"}

\* C16: whatever the user does with the controls the UI enables, and
\* however acquisitions and uploads complete, at most one call of the
\* submission callback and at most one upload are in flight.
C16_OneSubmitInFlight ==
    /\ Cardinality(CallbacksInFlight) <= 1
    /\ Cardinality(UploadsInFlight) <= 1

\* A submit is in flight while the user has a recording and a description
\* ready and the clock has moved: only the disabled button holds them back.
C16_Witness ==
    /\ CallbacksInFlight /= {} /\ UploadsInFlight /= {}
    /\ Len(submits) < MaxCalls
    /\ recordedVideoUrl /= 0 /\ recordedBlob /= NULL
    /\ Trim(description) /= <<>>
    /\ ClockMovedSinceLastSubmit

\* The upload of callback call k returns, in this step, a result whose
\* success field is false.
ReturnsFailure(k) ==
    LET i == cbCalls[k].call IN
    /\ cbCalls[k].callback = "dashboard" /\ cbCalls[k].pc = "pending"
    /\ calls[i].pc /= "done" /\ calls'[i].pc = "done"
    /\ calls'[i].outcome.kind = "returned"
    /\ ~calls'[i].outcome.value.isNull
    /\ calls'[i].outcome.value.success = Some(FALSE)

\* C17: in the step in which an upload returns a result with success =
\* false, handleVideoSubmit resolves, exactly the Report of that submit,
\* until then Pending, gets status Reviewing with its other fields as they
\* were, and every other Report stays as it was.
C17_ServiceFailureMarksReviewing ==
    [][\A k \in DOMAIN cbCalls :
          LET temp == cbCalls[k].tempReport[1] IN
          ReturnsFailure(k)
          => /\ cbCalls'[k].pc = "resolved"
             /\ DOMAIN reports' = DOMAIN reports
             /\ Cardinality({j \in DOMAIN reports : reports[j].id = temp.id}) = 1
             /\ \A j \in DOMAIN reports :
                   IF reports[j].id = temp.id
                   THEN /\ reports[j] = temp
                        /\ reports'[j] = [temp EXCEPT !.status = "reviewing"]
                   ELSE reports'[j] = reports[j]]_vars

C17_Witness ==
    /\ Len(reports) > 1
    /\ reports[1].status = "reviewing"
    /\ reports[2].status /= "reviewing"
    /\ \E k \in DOMAIN cbCalls :
          /\ cbCalls[k].pc = "resolved"
          /\ cbCalls[k].tempReport[1].id = reports[1].id
          /\ calls[cbCalls[k].call].outcome.kind = "returned"
          /\ calls[cbCalls[k].call].outcome.value.success = Some(FALSE)

\* The recorder holds no stream and nothing will give it one: no
\* acquisition is pending, neither "Try Again" nor "Record Again" is
\* rendered, and no recorder owes a stop event that would render one.
Stuck ==
    /\ streamRef = 0 /\ acquisitions.pending = 0
    /\ hasPermission /= "false"
    /\ recordedVideoUrl = 0 /\ ~isRecording
    /\ \A r \in DOMAIN recorders : recorders[r].state = "inactive"

\* No step leaves Stuck, and nothing is recorded in it: from a Stuck state
\* no sequence of user actions and completions reaches Recording.
StuckIsFinal == [][Stuck => Stuck' /\ ~isRecording']_vars

\* The upload of callback call k succeeded and handleSubmit has taken its
\* success path in this step.
SubmitSucceeds(k) ==
    /\ cbCalls[k].callback = "dashboard" /\ cbCalls[k].pc = "pending"
    /\ cbCalls'[k].pc = "resolved" /\ cbCalls'[k].toast = "Analysis Complete!"
    /\ submits'[cbCalls[k].submit].pc = "resolved"

\* C20: after a submit that completed successfully the user can record
\* again: the state the recorder is left in is not one from which Recording
\* is unreachable.
C20_CanRecordAfterSubmit ==
    [][\A k \in DOMAIN cbCalls : SubmitSucceeds(k) => ~Stuck']_vars

-----------------------------------------------------------------------------
\* Termination of a submit

\* Call i was made early enough for its 120 s to pass on the clock.
TimerHasItsChance(i) ==
    i \in DOMAIN calls /\ calls[i].startedAt + TimeoutMs <= MaxNow

SettledCall(i) == i \in DOMAIN calls /\ calls[i].pc = "done"

\* Call i waits for the body of a response whose headers have arrived; its
\* timer was cleared on their arrival (api.ts:63).
AwaitsBodyUntimed(i) ==
    /\ i \in DOMAIN calls
    /\ calls[i].pc \in {"okBody", "errorBody"}
    /\ calls[i].timer = "cleared"

\* Only the end of the body settles a call that waits for it: neither the
\* clock nor any task of the page does.
OnlyBodyEndsTheWait ==
    [][\A i \in DOMAIN calls :
          AwaitsBodyUntimed(i) /\ calls'[i] = calls[i]
          => /\ AwaitsBodyUntimed(i)'
             /\ (calls[i].caller = "dashboard"
                   => isSubmitting' /\ isLoading')]_vars

\* C21: every uploadVideoForAnalysis call whose timer has had the chance to
\* fire eventually settles, also when the server sends the response headers
\* and never finishes the body, and once it has settled the recorder's
\* isSubmitting and the Dashboard's isLoading are false.
C21_EveryUploadSettles ==
    \A i \in 1..MaxCalls :
        (TimerHasItsChance(i) /\ ~SettledCall(i))
        ~> (SettledCall(i) /\ ~isSubmitting /\ ~isLoading)

-----------------------------------------------------------------------------
\* A submit that completes after the recording was replaced

\* The promise handleSubmit k awaits settles in this step.
SubmitCompletes(k) ==
    submits[k].pc = "awaiting" /\ submits'[k].pc /= "awaiting"

\* Every recorder recorded a stream of its own: none was started between
\* the stop of another and its onstop handler.
OneRecorderPerStream ==
    \A r1, r2 \in DOMAIN recorders :
        r1 /= r2 => recorders[r1].stream /= recorders[r2].stream

\* The recording on display is not the one submit k was made with: it was
\* made, from a newly acquired stream, after a "Record Again", and a
\* description has been typed for it.
NewerRecording(k) ==
    /\ recordedVideoUrl /= 0 /\ recordedVideoUrl /= submits[k].url
    /\ submits[k].url /= 0
    /\ Trim(description) /= <<>>
    /\ OneRecorderPerStream

\* C22: the completion of a submit clears only the recording that was
\* submitted: a recording made (and a description typed) after a reset
\* while the submit was in flight is still there after the submit
\* resolves.
C22_CompletionKeepsNewerRecording ==
    [][\A k \in DOMAIN submits :
          SubmitCompletes(k) /\ NewerRecording(k)
          => /\ recordedVideoUrl' = recordedVideoUrl
             /\ recordedBlob' = recordedBlob
             /\ description' = description]_vars

====
